---- MODULE Spec2Model ----
(***************************************************************************)
(* Verification model of crossterm's command dispatch macros               *)
(* (src/src/macros.rs: write_ansi_code!, handle_command!, queue!,          *)
(* execute!) and of the attribute bitset (src/src/style/attributes.rs).    *)
(*                                                                         *)
(* The dispatch part runs the macros against the test sink FakeWrite       *)
(* (buffer, flushed).  A rendered form is one character, so a sequence of  *)
(* rendered forms and the String obtained by push_str of them correspond   *)
(* one to one.                                                             *)
(***************************************************************************)
EXTENDS Integers, Sequences, FiniteSets, TLC

VARIABLES
    target,   \* "unix" or "windows": which cfg branch of handle_command! is compiled
    writer,   \* the sink: FakeWrite { buffer, flushed }
    pc,       \* "idle": between macro calls; "done": a call returned, result not yet consumed
    last,     \* observation of the call that just returned (inputs, result, event log)
    hist,     \* observation of the calls made so far against this sink
    attrs,    \* the Attributes value under test: { bytes, idx }
    other,    \* a second Attributes value: a copy of attrs, or a right operand
    alast     \* observation of the last two operations on attrs

vars == <<target, writer, pc, last, hist, attrs, other, alast>>

(***************************************************************************)
(* Bounds of the model.                                                    *)
(***************************************************************************)
\* longest command list handed to one queue!/execute! call
MaxCmds == 2
\* longest sink buffer: a call is started only if its capabilities fit
MaxBuf == 3
\* number of attribute kinds of the enumeration that the model draws from
NumKinds == 4
\* longest slice of kinds a set is built from
MaxSlice == 4
\* most next() calls made on a set before it is used as an operand
MaxAdvance == 1

\* rendered forms (ansi_code values) of the capabilities: the empty string and
\* two one-character strings
Vals == {"", "A", "B"}

\* the bytes of a rendered form, as the sink buffer holds them
Bytes(code) == IF code = "" THEN <<>> ELSE <<code>>

(***************************************************************************)
(* Capabilities handed to the macros.  A capability is an input:           *)
(*   val  its ansi_code()                                                  *)
(*   sup  its is_ansi_code_supported() (always TRUE where the predicate    *)
(*        does not exist, i.e. on unix)                                    *)
(*   nat  what its execute_winapi does with the writer closure it is       *)
(*        handed: "ignore" it (as tests::windows::FakeCommand does) or     *)
(*        call it once ("writer")                                          *)
(*   out  what goes wrong while it is processed:                           *)
(*        "ok"   nothing                                                   *)
(*        "werr" the sink rejects every write made for it (none is made    *)
(*               for an empty rendered form)                               *)
(*        "ferr" the sink rejects the flush issued by the writer closure   *)
(*        "nerr" execute_winapi itself returns an error (after the         *)
(*               closure, if it calls it, returned Ok)                     *)
(***************************************************************************)
AnsiCommands ==
    [val : Vals, sup : {TRUE}, nat : {"ignore"}, out : {"ok", "werr"}]

NativeCommands ==
    [val : Vals, sup : {FALSE}, nat : {"ignore"}, out : {"ok", "nerr"}]
        \cup
    [val : Vals, sup : {FALSE}, nat : {"writer"}, out : {"ok", "werr", "ferr", "nerr"}]

Commands(t) == IF t = "windows" THEN AnsiCommands \cup NativeCommands ELSE AnsiCommands

RECURSIVE SeqsUpTo(_, _)
SeqsUpTo(S, n) ==
    IF n = 0 THEN {<<>>}
    ELSE LET shorter == SeqsUpTo(S, n - 1)
         IN  shorter \cup {Append(s, x) : s \in {q \in shorter : Len(q) = n - 1}, x \in S}

(***************************************************************************)
(* Results: Ok(()) or Err(ErrorKind), with the position of the capability  *)
(* the error comes from (Len(cmds) + 1 for execute!'s own flush).          *)
(***************************************************************************)
Ok == [ok |-> TRUE, at |-> 0, cause |-> "none"]
Err(pos, cause) == [ok |-> FALSE, at |-> pos, cause |-> cause]

Event(ev, pos, val) == [ev |-> ev, pos |-> pos, val |-> val]

(***************************************************************************)
(* tests::FakeWrite                                                        *)
(***************************************************************************)
FakeWriteDefault == [buffer |-> <<>>, flushed |-> FALSE]

FakeWrite_write(w, content) ==
    [buffer |-> w.buffer \o Bytes(content), flushed |-> FALSE]

FakeWrite_flush(w) == [w EXCEPT !.flushed = TRUE]

(***************************************************************************)
(* A run threads a record through the chain of closures:                   *)
(*   writer  the sink                                                      *)
(*   res     the Result so far                                             *)
(*   log     the sink and native events, in the order they happened        *)
(*   stream  the values pushed by execute_winapi (WindowsEventStream)      *)
(***************************************************************************)
StartRun(w) == [writer |-> w, res |-> Ok, log |-> <<>>, stream |-> <<>>]

\* write!($writer, "{}", code): write_all of the bytes of code.  It calls the
\* sink's write while bytes remain, so not at all for an empty code (the
\* result is then Ok whatever the sink would answer) and once for the forms
\* here, which the sink takes whole; a rejected write appends nothing
SinkWrite(r, pos, code, fails) ==
    IF Bytes(code) = <<>> THEN r
    ELSE IF fails
    THEN [r EXCEPT !.res = Err(pos, "write"),
                   !.log = Append(r.log, Event("writefail", pos, code))]
    ELSE [r EXCEPT !.writer = FakeWrite_write(r.writer, code),
                   !.log = Append(r.log, Event("write", pos, code))]

\* $writer.flush(): a rejected flush leaves the flushed flag as it was
SinkFlush(r, pos, fails) ==
    IF fails
    THEN [r EXCEPT !.res = Err(pos, "flush"),
                   !.log = Append(r.log, Event("flushfail", pos, ""))]
    ELSE [r EXCEPT !.writer = FakeWrite_flush(r.writer),
                   !.log = Append(r.log, Event("flush", pos, ""))]

write_ansi_code(r, pos, c) == SinkWrite(r, pos, c.val, c.out = "werr")

\* the closure handed to execute_winapi: write, then (if Ok) flush
FallbackWriter(r, pos, c) ==
    LET w == SinkWrite(r, pos, c.val, c.out = "werr")
    IN  IF w.res.ok THEN SinkFlush(w, pos, c.out = "ferr") ELSE w

\* Command::execute_winapi of the capability c
execute_winapi(r, pos, c) ==
    LET called == [r EXCEPT !.stream = Append(r.stream, c.val),
                            !.log = Append(r.log, Event("native", pos, c.val))]
        after  == IF c.nat = "writer" THEN FallbackWriter(called, pos, c) ELSE called
    IN  IF after.res.ok /\ c.out = "nerr"
        THEN [after EXCEPT !.res = Err(pos, "native")]
        ELSE after

\* mutant: the windows branch with the predicate inverted
handle_command_inverted(t, r, pos, c) ==
    IF t = "windows"
    THEN IF ~c.sup THEN write_ansi_code(r, pos, c) ELSE execute_winapi(r, pos, c)
    ELSE write_ansi_code(r, pos, c)

\* mutant: the windows branch writes the escape sequence and then also goes native
handle_command_also_writes(t, r, pos, c) ==
    IF t = "windows"
    THEN IF c.sup THEN write_ansi_code(r, pos, c)
         ELSE LET w == write_ansi_code(r, pos, c)
              IN  IF w.res.ok THEN execute_winapi(w, pos, c) ELSE w
    ELSE write_ansi_code(r, pos, c)

handle_command(t, r, pos, c) ==
    IF t = "windows"
    THEN IF c.sup THEN write_ansi_code(r, pos, c) ELSE execute_winapi(r, pos, c)
    ELSE write_ansi_code(r, pos, c)

\* mutant: a chain that keeps processing after a failure (map instead of and_then)
RECURSIVE Chain_no_short_circuit(_, _, _, _)
Chain_no_short_circuit(t, r, cmds, pos) ==
    IF pos > Len(cmds) THEN r
    ELSE Chain_no_short_circuit(t, handle_command(t, r, pos, cmds[pos]), cmds, pos + 1)

\* Ok(()) .and_then(|()| handle_command!(w, c1)) .and_then(...) ...
RECURSIVE Chain(_, _, _, _)
Chain(t, r, cmds, pos) ==
    IF pos > Len(cmds) THEN r
    ELSE IF ~r.res.ok THEN r
    ELSE Chain(t, handle_command(t, r, pos, cmds[pos]), cmds, pos + 1)

\* mutant: queue! that restores the sink when a command fails
queue_rollback(t, w, cmds) ==
    LET r == Chain(t, StartRun(w), cmds, 1)
    IN  IF r.res.ok THEN r ELSE [r EXCEPT !.writer = w]

\* mutant: queue! that flushes the sink once the commands are written
queue_flushing(t, w, cmds) ==
    SinkFlush(Chain(t, StartRun(w), cmds, 1), Len(cmds) + 1, FALSE)

queue(t, w, cmds) == Chain(t, StartRun(w), cmds, 1)

\* mutant: execute! that forgets the flush
execute_no_flush(t, w, cmds, flushFails) == queue(t, w, cmds)

\* mutant: execute! that flushes first and queues afterwards
execute_flush_first(t, w, cmds, flushFails) ==
    LET f == SinkFlush(StartRun(w), Len(cmds) + 1, flushFails)
    IN  IF f.res.ok THEN Chain(t, f, cmds, 1) ELSE f

\* mutant: execute! that flushes whatever queue! returned
execute_always_flush(t, w, cmds, flushFails) ==
    LET q == queue(t, w, cmds)
        f == SinkFlush(q, Len(cmds) + 1, flushFails)
    IN  IF q.res.ok THEN f ELSE [f EXCEPT !.res = q.res]

execute(t, w, cmds, flushFails) ==
    LET q == queue(t, w, cmds)
    IN  IF q.res.ok THEN SinkFlush(q, Len(cmds) + 1, flushFails) ELSE q

(***************************************************************************)
(* State machine of the dispatch part.                                     *)
(***************************************************************************)
NoCall ==
    [kind |-> "none", cmds |-> <<>>, pre |-> FakeWriteDefault, res |-> Ok,
     log |-> <<>>, stream |-> <<>>, flushFails |-> FALSE]

Observe(kind, cmds, pre, r, flushFails) ==
    [kind |-> kind, cmds |-> cmds, pre |-> pre, res |-> r.res,
     log |-> r.log, stream |-> r.stream, flushFails |-> flushFails]

(***************************************************************************)
(* What the calls so far did to the sink:                                  *)
(*   clean    every call so far returned Ok and took only the escape path  *)
(*   sent     bytes of the rendered forms of all capabilities of those     *)
(*            calls, in call order then argument order                     *)
(*   wrote    kind of the most recent call that wrote to the sink          *)
(*   touched  kind of the most recent operation that wrote to the sink or  *)
(*            flushed it ("flush": the caller's own flush)                 *)
(*   manual   the caller flushed the sink itself at some point             *)
(* Once a call fails or takes the native path the record is frozen.        *)
(***************************************************************************)
NoHist ==
    [clean |-> TRUE, sent |-> <<>>, wrote |-> "none", touched |-> "none",
     manual |-> FALSE]

Dirty ==
    [clean |-> FALSE, sent |-> <<>>, wrote |-> "none", touched |-> "none",
     manual |-> FALSE]

Render(cmds) == [i \in 1..Len(cmds) |-> cmds[i].val]

\* the bytes of the rendered forms of cmds, concatenated
RECURSIVE RenderBytes(_)
RenderBytes(cmds) ==
    IF cmds = <<>> THEN <<>> ELSE Bytes(Head(cmds).val) \o RenderBytes(Tail(cmds))

AllSupported(cmds) == \A i \in 1..Len(cmds) : cmds[i].sup

Record(h, kind, cmds, r) ==
    IF ~h.clean \/ ~r.res.ok \/ ~AllSupported(cmds) THEN Dirty
    ELSE [h EXCEPT !.sent = h.sent \o RenderBytes(cmds),
                   !.wrote = IF RenderBytes(cmds) # <<>> THEN kind ELSE h.wrote,
                   !.touched = IF RenderBytes(cmds) # <<>> \/ kind = "execute"
                               THEN kind ELSE h.touched]

(***************************************************************************)
(* Attributes (src/src/style/attributes.rs).                               *)
(*                                                                         *)
(* A u32 mask is held as the set of the positions of its 1 bits (bit 0 is  *)
(* the least significant): 0 is {}, 1 << k is {k}, and the bitwise         *)
(* operators are the set operators below, on the full width of the word.   *)
(* An attribute kind is its position in the enumeration, 0 .. NumKinds-1.  *)
(***************************************************************************)
\* width of the mask word (bytes: u32)
Bits == 32
AllBits == 0..(Bits - 1)

BitAnd(x, y) == x \cap y
BitOr(x, y) == x \cup y
BitXor(x, y) == (x \ y) \cup (y \ x)
BitNot(x) == AllBits \ x

Kinds == 0..(NumKinds - 1)

\* Attribute::bytes: the bit owned by a kind, 1 << (position + 1)
Attribute_bytes(a) == {a + 1}

\* Attributes::default()
Attributes_default == [bytes |-> {}, idx |-> 0]

\* From<Attribute> for Attributes
From_Attribute(a) == [bytes |-> Attribute_bytes(a), idx |-> 0]

\* mutant: set that assigns instead of or-ing (self.bytes = attribute.bytes())
set_overwrites(s, a) == [s EXCEPT !.bytes = Attribute_bytes(a)]

set(s, a) == [s EXCEPT !.bytes = BitOr(s.bytes, Attribute_bytes(a))]

\* From<&[Attribute]> for Attributes: default(), then set() of each element
RECURSIVE SetEach(_, _)
SetEach(attributes, arr) ==
    IF arr = <<>> THEN attributes
    ELSE SetEach(set(attributes, Head(arr)), Tail(arr))

\* mutant: a conversion that keeps only the last element of the slice
From_slice_last_wins(arr) ==
    IF arr = <<>> THEN Attributes_default ELSE From_Attribute(arr[Len(arr)])

From_slice(arr) == SetEach(Attributes_default, arr)

\* mutant: unset that forgets the complement (self.bytes &= attribute.bytes())
unset_without_not(s, a) == [s EXCEPT !.bytes = BitAnd(s.bytes, Attribute_bytes(a))]

unset(s, a) == [s EXCEPT !.bytes = BitAnd(s.bytes, BitNot(Attribute_bytes(a)))]

has(s, a) == BitAnd(s.bytes, Attribute_bytes(a)) # {}

is_empty(s) == s.bytes = {}

\* derive(PartialEq, Eq): field by field, mask and cursor
Attributes_eq(x, y) == x.bytes = y.bytes /\ x.idx = y.idx

\* mutant: toggle that sets the bit (self.bytes |= attribute.bytes())
toggle_sets(s, a) == [s EXCEPT !.bytes = BitOr(s.bytes, Attribute_bytes(a))]

\* Attributes::toggle
toggle(s, a) == [s EXCEPT !.bytes = BitXor(s.bytes, Attribute_bytes(a))]

\* mutant: extend that assigns the other mask (self.bytes = attributes.bytes)
extend_replaces(s, attributes) == [s EXCEPT !.bytes = attributes.bytes]

\* Attributes::extend
extend(s, attributes) == [s EXCEPT !.bytes = BitOr(s.bytes, attributes.bytes)]

\* impl BitAnd / BitOr / BitXor for Attributes: a new value, cursor at 0
bitand(x, rhs) == [bytes |-> BitAnd(x.bytes, rhs.bytes), idx |-> 0]

bitor(x, rhs) == [bytes |-> BitOr(x.bytes, rhs.bytes), idx |-> 0]

\* mutant: symmetric difference computed as union
bitxor_as_or(x, rhs) == [bytes |-> BitOr(x.bytes, rhs.bytes), idx |-> 0]

bitxor(x, rhs) == [bytes |-> BitXor(x.bytes, rhs.bytes), idx |-> 0]

\* impl BitAnd<Attribute> / BitOr<Attribute> / BitXor<Attribute> for Attributes
bitand_Attribute(x, a) == [bytes |-> BitAnd(x.bytes, Attribute_bytes(a)), idx |-> 0]

bitor_Attribute(x, a) == [bytes |-> BitOr(x.bytes, Attribute_bytes(a)), idx |-> 0]

bitxor_Attribute(x, a) == [bytes |-> BitXor(x.bytes, Attribute_bytes(a)), idx |-> 0]

(***************************************************************************)
(* <Attributes as Iterator>::next.                                         *)
(*                                                                         *)
(* Kind k of the enumeration owns bit k + 1; the enumeration is the kinds   *)
(* of the model, EnumLen of them.                                          *)
(* 1u32 << k with k >= 32 overflows: a build with overflow checks panics,  *)
(* a build without them shifts by k mod 32; `wrap` says which build it is. *)
(* A call ends "some" (an item is returned), "none" (end of iteration) or  *)
(* "panic"; shifts is the set of shift amounts the call evaluated.         *)
(***************************************************************************)
EnumLen == NumKinds

Highest(x) == CHOOSE k \in x : \A j \in x : j <= k

\* u32::leading_zeros
leading_zeros(x) == IF x = {} THEN Bits ELSE Bits - 1 - Highest(x)

\* Attribute::iterator().nth(i): the kind at position i, if the enumeration
\* (of n kinds) has one
nth_exists(i, n) == i < n

NextResult(s, end, item, shifts) ==
    [s |-> s, end |-> end, item |-> item, shifts |-> shifts]

\* mutant: tests bit idx + 1 and yields the kind at idx + 1
RECURSIVE Scan_yields_kind_above(_, _, _, _, _)
Scan_yields_kind_above(s, len, wrap, n, shifts) ==
    LET k == s.idx + 1
    IN  IF k >= Bits /\ ~wrap
        THEN NextResult(s, "panic", 0, shifts \cup {k})
        ELSE LET has_it == BitAnd(s.bytes, {k % Bits})
                 step   == [s EXCEPT !.idx = s.idx + 1]
             IN  IF has_it = {}
                 THEN IF step.idx >= len
                      THEN NextResult(step, "none", 0, shifts \cup {k})
                      ELSE Scan_yields_kind_above(step, len, wrap, n, shifts \cup {k})
                 ELSE IF nth_exists(k, n)
                      THEN NextResult(step, "some", k, shifts \cup {k})
                      ELSE NextResult(s, "panic", 0, shifts \cup {k})

\* mutant: the loop runs to the width of the word instead of to len
RECURSIVE Scan_to_word_end(_, _, _, _, _)
Scan_to_word_end(s, len, wrap, n, shifts) ==
    LET k == s.idx + 1
    IN  IF k >= Bits /\ ~wrap
        THEN NextResult(s, "panic", 0, shifts \cup {k})
        ELSE LET has_it == BitAnd(s.bytes, {k % Bits})
                 step   == [s EXCEPT !.idx = s.idx + 1]
             IN  IF has_it = {}
                 THEN IF step.idx >= Bits
                      THEN NextResult(step, "none", 0, shifts \cup {k})
                      ELSE Scan_to_word_end(step, len, wrap, n, shifts \cup {k})
                 ELSE IF nth_exists(s.idx, n)
                      THEN NextResult(step, "some", s.idx, shifts \cup {k})
                      ELSE NextResult(s, "panic", 0, shifts \cup {k})

\* lines 19-30: test bit idx + 1, advance while it is clear, yield the kind at idx
RECURSIVE Scan(_, _, _, _, _)
Scan(s, len, wrap, n, shifts) ==
    LET k == s.idx + 1
    IN  IF k >= Bits /\ ~wrap
        THEN NextResult(s, "panic", 0, shifts \cup {k})
        ELSE LET has_it == BitAnd(s.bytes, {k % Bits})
                 step   == [s EXCEPT !.idx = s.idx + 1]
             IN  IF has_it = {}
                 THEN IF step.idx >= len
                      THEN NextResult(step, "none", 0, shifts \cup {k})
                      ELSE Scan(step, len, wrap, n, shifts \cup {k})
                 ELSE IF nth_exists(s.idx, n)
                      THEN NextResult(step, "some", s.idx, shifts \cup {k})
                      ELSE NextResult(s, "panic", 0, shifts \cup {k})

\* mutant: an exhausted iterator starts again from the first bit
next_restarts(s, wrap, n) ==
    LET len == Bits - leading_zeros(s.bytes)
    IN  IF s.idx >= len
        THEN IF len = 0 THEN NextResult(s, "none", 0, {})
             ELSE Scan([s EXCEPT !.idx = 0], len, wrap, n, {})
        ELSE Scan(s, len, wrap, n, {})

\* mutant: an iterator that takes the bit of the kind it yields out of the mask
next_consumes(s, wrap, n) ==
    LET len == Bits - leading_zeros(s.bytes)
        r   == IF s.idx >= len
               THEN NextResult(s, "none", 0, {})
               ELSE Scan(s, len, wrap, n, {})
    IN  IF r.end = "some"
        THEN [r EXCEPT !.s.bytes = r.s.bytes \ Attribute_bytes(r.item)]
        ELSE r

next(s, wrap, n) ==
    LET len == Bits - leading_zeros(s.bytes)
    IN  IF s.idx >= len
        THEN NextResult(s, "none", 0, {})
        ELSE Scan(s, len, wrap, n, {})

\* for a in attributes { .. } / attributes.collect(): next() until it ends;
\* IntoIterator of an Iterator is the value itself, cursor included
RECURSIVE Drain(_, _, _, _)
Drain(s, wrap, n, out) ==
    LET r == next(s, wrap, n)
    IN  IF r.end = "some"
        THEN Drain(r.s, wrap, n, Append(out, r.item))
        ELSE [s |-> r.s, end |-> r.end, out |-> out]

collect(s, wrap, n) == Drain(s, wrap, n, <<>>)

(***************************************************************************)
(* Observation of the operations applied to attrs: the operation, its      *)
(* argument, the value before it, what it returned (end, item, out,        *)
(* shifts; res for a value), its right operand (rhs) or slice (arr), and   *)
(* the in-place mutation that came right before it, if any.                *)
(***************************************************************************)
Mutators == {"set", "unset", "toggle"}

NoAttrOp == [op |-> "none", arg |-> 0, pre |-> Attributes_default,
             prevOp |-> "none", prevArg |-> 0,
             end |-> "unit", item |-> 0, out |-> <<>>, shifts |-> {},
             rhs |-> Attributes_default, res |-> Attributes_default, arr |-> <<>>]

AttrOpRet(op, a, end, item, out, shifts) ==
    [op |-> op, arg |-> a, pre |-> attrs,
     prevOp |-> IF alast.op \in Mutators THEN alast.op ELSE "none",
     prevArg |-> IF alast.op \in Mutators THEN alast.arg ELSE 0,
     end |-> end, item |-> item, out |-> out, shifts |-> shifts,
     rhs |-> Attributes_default, res |-> Attributes_default, arr |-> <<>>]

AttrOp(op, a) == AttrOpRet(op, a, "unit", 0, <<>>, {})

\* a binary operation: its right operand and the value it returned
AttrOpBin(op, a, rhs, res) ==
    [AttrOp(op, a) EXCEPT !.rhs = rhs, !.res = res]

Init ==
    /\ target \in {"unix", "windows"}
    /\ writer = FakeWriteDefault
    /\ pc = "idle"
    /\ last = NoCall
    /\ hist = NoHist
    /\ attrs = Attributes_default
    /\ other = Attributes_default
    /\ alast = NoAttrOp

\* the argument lists of one macro call, per target
UnixCalls == SeqsUpTo(Commands("unix"), MaxCmds)
WindowsCalls == SeqsUpTo(Commands("windows"), MaxCmds)
Calls(t) == IF t = "windows" THEN WindowsCalls ELSE UnixCalls

\* every capability of a call is given one place of the buffer bound, whether
\* or not its rendered form has bytes
Fits(cmds) == Len(writer.buffer) + Len(cmds) <= MaxBuf

Queue ==
    /\ pc = "idle"
    /\ \E cmds \in Calls(target) :
          /\ Fits(cmds)
          /\ LET r == queue(target, writer, cmds)
             IN  /\ writer' = r.writer
                 /\ last' = Observe("queue", cmds, writer, r, FALSE)
                 /\ hist' = Record(hist, "queue", cmds, r)
    /\ pc' = "done"
    /\ UNCHANGED <<target, attrs, other, alast>>

Execute ==
    /\ pc = "idle"
    /\ \E cmds \in Calls(target), flushFails \in BOOLEAN :
          /\ Fits(cmds)
          /\ LET r == execute(target, writer, cmds, flushFails)
             IN  /\ writer' = r.writer
                 /\ last' = Observe("execute", cmds, writer, r, flushFails)
                 /\ hist' = Record(hist, "execute", cmds, r)
    /\ pc' = "done"
    /\ UNCHANGED <<target, attrs, other, alast>>

\* the caller flushes the sink itself (stdout.flush() in the queue! doc example)
Flush ==
    /\ pc = "idle"
    /\ writer' = FakeWrite_flush(writer)
    /\ hist' = IF hist.clean THEN [hist EXCEPT !.touched = "flush", !.manual = TRUE]
               ELSE hist
    /\ UNCHANGED <<target, pc, last, attrs, other, alast>>

\* the caller consumes the Result (`?` / unwrap) and goes on
Consume ==
    /\ pc = "done"
    /\ pc' = "idle"
    /\ last' = NoCall
    /\ UNCHANGED <<target, writer, hist, attrs, other, alast>>

Next == Queue \/ Execute \/ Flush \/ Consume

Spec == Init /\ [][Next]_vars

(***************************************************************************)
(* State machine of the attribute set: one Attributes value, mutated in    *)
(* place.  The dispatch variables stay as constructed.                     *)
(***************************************************************************)
AttrInit ==
    /\ target = "unix"
    /\ writer = FakeWriteDefault
    /\ pc = "idle"
    /\ last = NoCall
    /\ hist = NoHist
    /\ attrs = Attributes_default
    /\ other = Attributes_default
    /\ alast = NoAttrOp

\* let mut attributes: Attributes = a.into()
Into ==
    /\ \E a \in Kinds :
          /\ attrs' = From_Attribute(a)
          /\ alast' = AttrOp("from", a)
    /\ UNCHANGED <<target, writer, pc, last, hist, other>>

Set ==
    /\ \E a \in Kinds :
          /\ attrs' = set(attrs, a)
          /\ alast' = AttrOp("set", a)
    /\ UNCHANGED <<target, writer, pc, last, hist, other>>

Unset ==
    /\ \E a \in Kinds :
          /\ attrs' = unset(attrs, a)
          /\ alast' = AttrOp("unset", a)
    /\ UNCHANGED <<target, writer, pc, last, hist, other>>

Toggle ==
    /\ \E a \in Kinds :
          /\ attrs' = toggle(attrs, a)
          /\ alast' = AttrOp("toggle", a)
    /\ UNCHANGED <<target, writer, pc, last, hist, other>>

\* attributes.next(): the cursor of the value itself advances
IterNext ==
    /\ alast.end # "panic"
    /\ \E wrap \in BOOLEAN :
          LET r == next(attrs, wrap, EnumLen)
          IN  /\ attrs' = r.s
              /\ alast' = AttrOpRet("next", 0, r.end, r.item, <<>>, r.shifts)
    /\ UNCHANGED <<target, writer, pc, last, hist, other>>

\* for a in attributes { .. }: a copy of the value is iterated to its end
Collect ==
    /\ alast.end # "panic"
    /\ \E wrap \in BOOLEAN :
          LET r == collect(attrs, wrap, EnumLen)
          IN  alast' = AttrOpRet("collect", 0, r.end, 0, r.out, {})
    /\ UNCHANGED <<target, writer, pc, last, hist, attrs, other>>

Has ==
    /\ \E a \in Kinds :
          alast' = AttrOpRet("has", a, IF has(attrs, a) THEN "true" ELSE "false",
                             0, <<>>, {})
    /\ UNCHANGED <<target, writer, pc, last, hist, attrs, other>>

IsEmpty ==
    /\ alast' = AttrOpRet("is_empty", 0, IF is_empty(attrs) THEN "true" ELSE "false",
                          0, <<>>, {})
    /\ UNCHANGED <<target, writer, pc, last, hist, attrs, other>>

AttrNext == Into \/ Set \/ Unset \/ Toggle \/ IterNext \/ Collect \/ Has \/ IsEmpty

AttrSpec == AttrInit /\ [][AttrNext]_vars

(***************************************************************************)
(* State machine of one iteration: `other` is an attribute set built from  *)
(* a slice of kinds, `attrs` is the iterator made from it (let mut it =    *)
(* set: a copy, cursor 0), on which next() is called; the set can be       *)
(* mutated meanwhile.                                                      *)
(***************************************************************************)
Built == {From_slice(arr) : arr \in SeqsUpTo(Kinds, MaxSlice)}

IterInit ==
    /\ target = "unix"
    /\ writer = FakeWriteDefault
    /\ pc = "idle"
    /\ last = NoCall
    /\ hist = NoHist
    /\ other \in Built
    /\ attrs = other
    /\ alast = NoAttrOp

\* the set the iterator was made from is mutated through its own handle
MutateCopy ==
    /\ alast.end # "panic"
    /\ \E a \in Kinds, f \in Mutators :
          /\ other' = CASE f = "set" -> set(other, a)
                        [] f = "unset" -> unset(other, a)
                        [] f = "toggle" -> toggle(other, a)
          /\ alast' = AttrOpRet("mutate_copy", a, "unit", 0, <<>>, {})
    /\ UNCHANGED <<target, writer, pc, last, hist, attrs>>

IterSpecNext == IterNext \/ MutateCopy

IterSpec == IterInit /\ [][IterSpecNext]_vars

(***************************************************************************)
(* State machine of the binary operations: attrs and other are two         *)
(* attribute sets, each built from a slice of kinds and then iterated for  *)
(* zero or more steps, and one operation is applied to them.  Operands are *)
(* passed by value (Attributes is Copy), so an operator leaves attrs and   *)
(* other as they are.                                                      *)
(***************************************************************************)
RECURSIVE Advance(_, _)
Advance(s, n) == IF n = 0 THEN s ELSE Advance(next(s, FALSE, EnumLen).s, n - 1)

Values == {Advance(s, n) : s \in Built, n \in 0..MaxAdvance}

OpInit ==
    /\ target = "unix"
    /\ writer = FakeWriteDefault
    /\ pc = "idle"
    /\ last = NoCall
    /\ hist = NoHist
    /\ attrs \in Values
    /\ other \in Values
    /\ alast = NoAttrOp

\* attrs & other
BitAndOp ==
    /\ alast.op = "none"
    /\ alast' = AttrOpBin("bitand", 0, other, bitand(attrs, other))
    /\ UNCHANGED <<target, writer, pc, last, hist, attrs, other>>

\* attrs | other
BitOrOp ==
    /\ alast.op = "none"
    /\ alast' = AttrOpBin("bitor", 0, other, bitor(attrs, other))
    /\ UNCHANGED <<target, writer, pc, last, hist, attrs, other>>

\* attrs ^ other
BitXorOp ==
    /\ alast.op = "none"
    /\ alast' = AttrOpBin("bitxor", 0, other, bitxor(attrs, other))
    /\ UNCHANGED <<target, writer, pc, last, hist, attrs, other>>

\* attrs & a, attrs | a, attrs ^ a for an attribute kind a
BitAndAttribute ==
    /\ alast.op = "none"
    /\ \E a \in Kinds :
          alast' = AttrOpBin("bitand_Attribute", a, other, bitand_Attribute(attrs, a))
    /\ UNCHANGED <<target, writer, pc, last, hist, attrs, other>>

BitOrAttribute ==
    /\ alast.op = "none"
    /\ \E a \in Kinds :
          alast' = AttrOpBin("bitor_Attribute", a, other, bitor_Attribute(attrs, a))
    /\ UNCHANGED <<target, writer, pc, last, hist, attrs, other>>

BitXorAttribute ==
    /\ alast.op = "none"
    /\ \E a \in Kinds :
          alast' = AttrOpBin("bitxor_Attribute", a, other, bitxor_Attribute(attrs, a))
    /\ UNCHANGED <<target, writer, pc, last, hist, attrs, other>>

\* attrs.extend(other)
Extend ==
    /\ alast.op = "none"
    /\ attrs' = extend(attrs, other)
    /\ alast' = AttrOpBin("extend", 0, other, extend(attrs, other))
    /\ UNCHANGED <<target, writer, pc, last, hist, other>>

OpNext ==
    \/ BitAndOp \/ BitOrOp \/ BitXorOp
    \/ BitAndAttribute \/ BitOrAttribute \/ BitXorAttribute
    \/ Extend

OpSpec == OpInit /\ [][OpNext]_vars

(***************************************************************************)
(* State machine of the conversions: a value is built from one kind or     *)
(* from a slice of kinds.  A conversion from a slice replaces the value    *)
(* whatever it was, so two in a row are not taken.                         *)
(***************************************************************************)
\* let attributes = Attributes::from(&arr[..])
FromSlice ==
    /\ alast.op # "from_slice"
    /\ \E arr \in SeqsUpTo(Kinds, MaxSlice) :
          /\ attrs' = From_slice(arr)
          /\ alast' = [NoAttrOp EXCEPT !.op = "from_slice", !.arr = arr]
    /\ UNCHANGED <<target, writer, pc, last, hist, other>>

FromNext == FromSlice \/ Into

FromSpec == AttrInit /\ [][FromNext]_vars

(***************************************************************************)
(* Vocabulary of the properties of the dispatch part.                      *)
(***************************************************************************)
Returned(kind) == pc = "done" /\ last.kind = kind

\* something goes wrong while c is processed: a rejection of its write takes
\* effect only if a write is made for it
Fails(c) == c.out # "ok" /\ ~(c.out = "werr" /\ Bytes(c.val) = <<>>)

AllOk(cmds) == \A i \in 1..Len(cmds) : ~Fails(cmds[i])

\* number of write calls the sink receives for a rendered form
WriteCalls(c) == Len(Bytes(c.val))

\* indices of the log at which flush was called on the sink
FlushCalls(log) == {k \in 1..Len(log) : log[k].ev \in {"flush", "flushfail"}}

\* indices of the log that belong to the capability at position pos
EventsAt(log, pos, evs) == {k \in 1..Len(log) : log[k].pos = pos /\ log[k].ev \in evs}

\* the first position whose capability fails, 0 if none does
FirstFailure(cmds) ==
    IF AllOk(cmds) THEN 0
    ELSE CHOOSE i \in 1..Len(cmds) :
            /\ Fails(cmds[i])
            /\ \A j \in 1..(i - 1) : ~Fails(cmds[j])

CauseOf(c) ==
    CASE c.out = "werr" -> "write"
      [] c.out = "ferr" -> "flush"
      [] c.out = "nerr" -> "native"
      [] OTHER -> "none"

\* the capability's native call invokes the writer closure it is handed
UsesWriter(c) == ~c.sup /\ c.nat = "writer"

(***************************************************************************)
(* C1: queue of a non-empty sequence of capabilities that are all          *)
(* supported as escape sequences, with no write failing, returns Ok,       *)
(* leaves the sink holding its previous content followed by the rendered   *)
(* forms in argument order, and never calls flush on the sink.             *)
(***************************************************************************)
C1_QueueAppendsInOrderNoFlush ==
    (Returned("queue") /\ last.cmds # <<>> /\ AllSupported(last.cmds) /\ AllOk(last.cmds))
        => /\ last.res = Ok
           /\ writer.buffer = last.pre.buffer \o RenderBytes(last.cmds)
           /\ FlushCalls(last.log) = {}
           /\ writer.flushed <=> (last.pre.flushed /\ RenderBytes(last.cmds) = <<>>)

C1_Witness ==
    /\ Returned("queue")
    /\ Len(last.cmds) = 2
    /\ AllSupported(last.cmds) /\ AllOk(last.cmds)
    /\ last.cmds[1].val # last.cmds[2].val
    /\ last.cmds[1].val # "" /\ last.cmds[2].val # ""
    /\ last.pre.buffer # <<>> /\ last.pre.flushed
    /\ writer.buffer = last.pre.buffer \o Render(last.cmds)

(***************************************************************************)
(* C3: when the capability at position i is the first to fail, queue and   *)
(* execute return exactly its failure, and nothing at a position after i   *)
(* is processed: no write, no flush and no native call of a later          *)
(* capability happens (and execute does not reach its own flush).          *)
(***************************************************************************)
C3_ShortCircuit ==
    (pc = "done" /\ ~AllOk(last.cmds))
        => LET i == FirstFailure(last.cmds)
           IN  /\ last.res = Err(i, CauseOf(last.cmds[i]))
               /\ \A k \in 1..Len(last.log) : last.log[k].pos <= i
               /\ Len(last.stream) =
                    Cardinality({j \in 1..i : target = "windows" /\ ~last.cmds[j].sup})

C3_Witness ==
    /\ pc = "done"
    /\ Len(last.cmds) = 2
    /\ last.cmds[1].out = "nerr"
    /\ ~last.cmds[2].sup /\ last.cmds[2].out = "ok"
    /\ last.res = Err(1, "native")
    /\ last.stream = <<last.cmds[1].val>>

\* the capability at position j was processed by the call
Processed(cmds, j) == FirstFailure(cmds) = 0 \/ j <= FirstFailure(cmds)

\* number of capabilities of cmds whose native call invokes the writer closure
WriterUsers(cmds) == Cardinality({j \in 1..Len(cmds) : UsesWriter(cmds[j])})

OwnFlushPos == Len(last.cmds) + 1

(***************************************************************************)
(* C2 (as stated): execute of a non-empty sequence of capabilities that    *)
(* all succeed writes the bytes queue would write and calls flush exactly  *)
(* once, as the last thing it does, whichever path each capability takes.  *)
(***************************************************************************)
C2_Original_SingleFlushAtEnd ==
    (Returned("execute") /\ last.cmds # <<>> /\ AllOk(last.cmds))
        => /\ writer.buffer = queue(target, last.pre, last.cmds).writer.buffer
           /\ FlushCalls(last.log) = {Len(last.log)}
           /\ last.log[Len(last.log)].pos = OwnFlushPos

(***************************************************************************)
(* C2 (amended): execute of a non-empty sequence of capabilities that all  *)
(* succeed writes the bytes queue would write and calls flush exactly once *)
(* on its own account, as the last thing it does; every other flush of the *)
(* call is the one issued by the writer closure of a native-fallback       *)
(* capability, right after that capability's rendered form is written, one *)
(* per invocation of the closure (a native call invokes it at most once    *)
(* here).                                                                  *)
(***************************************************************************)
C2_OwnFlushOnceAtEnd ==
    (Returned("execute") /\ last.cmds # <<>> /\ AllOk(last.cmds))
        => /\ writer.buffer = queue(target, last.pre, last.cmds).writer.buffer
           /\ EventsAt(last.log, OwnFlushPos, {"flush", "flushfail"}) = {Len(last.log)}
           /\ \A k \in FlushCalls(last.log) :
                 k # Len(last.log) =>
                    /\ UsesWriter(last.cmds[last.log[k].pos])
                    /\ WriteCalls(last.cmds[last.log[k].pos]) > 0 =>
                          /\ k > 1
                          /\ last.log[k - 1] =
                               Event("write", last.log[k].pos,
                                     last.cmds[last.log[k].pos].val)
           /\ Cardinality(FlushCalls(last.log)) = 1 + WriterUsers(last.cmds)

C2_Witness ==
    /\ Returned("execute")
    /\ Len(last.cmds) = 2 /\ AllOk(last.cmds)
    /\ UsesWriter(last.cmds[1]) /\ last.cmds[2].sup
    /\ Cardinality(FlushCalls(last.log)) = 2
    /\ last.res = Ok /\ writer.flushed

(***************************************************************************)
(* C4 (as stated): in an execute call, when any capability fails no flush  *)
(* of the sink occurs at any point of the call, and when all succeed and   *)
(* execute returns success the sink has been flushed.                      *)
(***************************************************************************)
C4_Original_FlushIffAllSucceed ==
    Returned("execute")
        => /\ ~AllOk(last.cmds) => FlushCalls(last.log) = {}
           /\ (AllOk(last.cmds) /\ last.res.ok) =>
                 writer.flushed /\ FlushCalls(last.log) # {}

(***************************************************************************)
(* C4 (amended): in an execute call, execute's own flush is called if and  *)
(* only if every capability succeeded; when a capability fails, the only   *)
(* flushes of the call are those issued by the writer closure of           *)
(* native-fallback capabilities at positions up to the failing one; and    *)
(* execute returns success only if all succeeded, the sink then being      *)
(* flushed by the last event of the call.                                  *)
(***************************************************************************)
C4_OwnFlushIffAllSucceed ==
    Returned("execute")
        => /\ EventsAt(last.log, OwnFlushPos, {"flush", "flushfail"}) # {}
                <=> AllOk(last.cmds)
           /\ ~AllOk(last.cmds) =>
                 \A k \in FlushCalls(last.log) :
                    /\ last.log[k].pos <= FirstFailure(last.cmds)
                    /\ UsesWriter(last.cmds[last.log[k].pos])
           /\ last.res.ok =>
                 /\ AllOk(last.cmds)
                 /\ writer.flushed
                 /\ last.log[Len(last.log)] = Event("flush", OwnFlushPos, "")

C4_Witness ==
    /\ Returned("execute")
    /\ Len(last.cmds) = 2
    /\ UsesWriter(last.cmds[1]) /\ last.cmds[1].out = "ok"
    /\ last.cmds[2].out = "werr"
    /\ Cardinality(FlushCalls(last.log)) = 1
    /\ ~last.res.ok

(***************************************************************************)
(* C5 (as stated): queuing a capability that reports itself unsupported    *)
(* invokes its native call and leaves the sink unchanged by that           *)
(* capability (nothing written, nothing flushed), whatever the native call *)
(* does with the writer closure it is handed.                              *)
(***************************************************************************)
C5_Original_NativeLeavesSink ==
    (Returned("queue") /\ target = "windows")
        => /\ \A j \in 1..Len(last.cmds) :
                 (~last.cmds[j].sup /\ Processed(last.cmds, j)) =>
                    /\ Cardinality(EventsAt(last.log, j, {"native"})) = 1
                    /\ EventsAt(last.log, j, {"write", "flush"}) = {}
           /\ (\A j \in 1..Len(last.cmds) : ~last.cmds[j].sup) => writer = last.pre

(***************************************************************************)
(* C5 (amended): queuing a capability that reports itself unsupported      *)
(* invokes its native call instead of the escape-sequence write.  The sink *)
(* is left unchanged by that capability when its native call does not      *)
(* invoke the writer closure; a native call that invokes the closure       *)
(* writes the capability's rendered form to the sink and, the write being  *)
(* accepted, flushes the sink.                                             *)
(***************************************************************************)
C5_NativeLeavesSinkUnlessWriterUsed ==
    (Returned("queue") /\ target = "windows")
        => /\ \A j \in 1..Len(last.cmds) :
                 (~last.cmds[j].sup /\ Processed(last.cmds, j)) =>
                    LET c == last.cmds[j]
                        sinkEvents == EventsAt(last.log, j,
                                        {"write", "writefail", "flush", "flushfail"})
                    IN  /\ Cardinality(EventsAt(last.log, j, {"native"})) = 1
                        /\ c.nat = "ignore" => sinkEvents = {}
                        /\ c.nat = "writer" =>
                              /\ Cardinality(EventsAt(last.log, j, {"write", "writefail"}))
                                    = WriteCalls(c)
                              /\ c.out # "werr" =>
                                    Cardinality(EventsAt(last.log, j, {"write"}))
                                       = WriteCalls(c)
                              /\ (c.out \in {"ok", "nerr"} \/ ~Fails(c)) =>
                                    Cardinality(EventsAt(last.log, j, {"flush"})) = 1
           /\ (\A j \in 1..Len(last.cmds) : ~last.cmds[j].sup /\ last.cmds[j].nat = "ignore")
                 => writer = last.pre
           /\ (AllOk(last.cmds) /\ last.cmds # <<>>
                 /\ \A j \in 1..Len(last.cmds) : UsesWriter(last.cmds[j]))
                 => writer = [buffer |-> last.pre.buffer \o RenderBytes(last.cmds),
                              flushed |-> TRUE]

C5_Witness ==
    /\ Returned("queue") /\ target = "windows"
    /\ Len(last.cmds) = 2
    /\ \A j \in 1..2 : ~last.cmds[j].sup /\ last.cmds[j].nat = "ignore"
    /\ AllOk(last.cmds)
    /\ last.pre.buffer # <<>>
    /\ writer = last.pre
    /\ last.stream = Render(last.cmds)

\* the predicate has the same value for every capability of cmds
SamePredicate(cmds) == \A i, j \in 1..Len(cmds) : cmds[i].sup = cmds[j].sup

\* the call extended the sink buffer / the call pushed to the native call stream
WriterPopulated == writer.buffer # last.pre.buffer
StreamPopulated == last.stream # <<>>

\* exactly one dispatch path for the capability at position j
OnePath(j) ==
    LET c == last.cmds[j]
    IN  IF c.sup
        THEN /\ EventsAt(last.log, j, {"native"}) = {}
             /\ Cardinality(EventsAt(last.log, j, {"write", "writefail"})) = WriteCalls(c)
             /\ (c.out = "ok" /\ WriteCalls(c) > 0)
                   => \E k \in 1..Len(last.log) : last.log[k] = Event("write", j, c.val)
        ELSE Cardinality(EventsAt(last.log, j, {"native"})) = 1

(***************************************************************************)
(* C6 (as stated): each processed capability takes exactly one dispatch    *)
(* path (supported: its rendered form is written and its native call is    *)
(* never invoked; unsupported: its native call is invoked exactly once),   *)
(* and over a call whose capabilities all have the same predicate value    *)
(* the writer and the native call stream are never both populated.         *)
(***************************************************************************)
C6_Original_OnePathOneSink ==
    pc = "done"
        => /\ \A j \in 1..Len(last.cmds) : Processed(last.cmds, j) => OnePath(j)
           /\ SamePredicate(last.cmds) => ~(WriterPopulated /\ StreamPopulated)

(***************************************************************************)
(* C6 (amended): each processed capability takes exactly one dispatch path *)
(* (supported: its rendered form is written and its native call is never   *)
(* invoked; unsupported: its native call is invoked exactly once, and its  *)
(* rendered form reaches the sink only if that native call invokes the     *)
(* writer closure).  Over a call whose capabilities all have the same      *)
(* predicate value and none of whose native calls invokes the writer       *)
(* closure, the writer and the native call stream are never both           *)
(* populated.                                                              *)
(***************************************************************************)
C6_OnePathOneSinkUnlessWriterUsed ==
    pc = "done"
        => /\ \A j \in 1..Len(last.cmds) :
                 Processed(last.cmds, j) =>
                    /\ OnePath(j)
                    /\ (~last.cmds[j].sup /\ ~UsesWriter(last.cmds[j])) =>
                          EventsAt(last.log, j, {"write", "writefail"}) = {}
           /\ (SamePredicate(last.cmds) /\ WriterUsers(last.cmds) = 0)
                 => ~(WriterPopulated /\ StreamPopulated)
           /\ Len(last.stream) =
                 Cardinality({k \in 1..Len(last.log) : last.log[k].ev = "native"})

C6_Witness ==
    /\ pc = "done" /\ target = "windows"
    /\ Len(last.cmds) = 2 /\ AllOk(last.cmds)
    /\ last.cmds[1].sup /\ ~last.cmds[2].sup /\ last.cmds[2].nat = "ignore"
    /\ last.cmds[1].val # ""
    /\ writer.buffer = Append(last.pre.buffer, last.cmds[1].val)
    /\ last.stream = <<last.cmds[2].val>>

(***************************************************************************)
(* C7: on a target where escape sequences are unsupported queue and        *)
(* execute behave the same: from the same sink state and for the same      *)
(* capabilities, execute makes the native calls queue makes, returns what  *)
(* queue returns and leaves the sink (content and flushed flag) as queue   *)
(* leaves it.                                                              *)
(***************************************************************************)
C7_QueueExecuteCollapse ==
    (Returned("execute") /\ target = "windows" /\ last.cmds # <<>>
        /\ \A j \in 1..Len(last.cmds) : ~last.cmds[j].sup)
        => LET q == queue(target, last.pre, last.cmds)
           IN  /\ q.stream = last.stream
               /\ q.res = last.res
               /\ q.writer = writer

\* the part of C7 the code does satisfy: same native calls, same sink content
C7_SameNativeCallsAndContent ==
    (Returned("execute") /\ target = "windows" /\ last.cmds # <<>>
        /\ \A j \in 1..Len(last.cmds) : ~last.cmds[j].sup)
        => LET q == queue(target, last.pre, last.cmds)
           IN  /\ q.stream = last.stream
               /\ q.writer.buffer = writer.buffer

\* the capabilities before position i, and whether a capability's rendered form is written
Before(cmds, i) == SubSeq(cmds, 1, i - 1)
TookEscapePath(c) == c.sup
WroteRendered(c) == c.sup \/ UsesWriter(c)

(***************************************************************************)
(* C8 (as stated): when the capability at position i fails, nothing is     *)
(* rolled back: the sink content is its previous content followed by the   *)
(* rendered forms of exactly the capabilities before i that took the       *)
(* escape-sequence path, in argument order.                                *)
(***************************************************************************)
C8_Original_PartialEffects ==
    (pc = "done" /\ ~AllOk(last.cmds))
        => LET i == FirstFailure(last.cmds)
           IN  writer.buffer =
                 last.pre.buffer
                    \o RenderBytes(SelectSeq(Before(last.cmds, i), TookEscapePath))

(***************************************************************************)
(* C8 (amended): when the capability at position i fails, nothing is       *)
(* rolled back: the sink content is its previous content followed by the   *)
(* rendered forms, in argument order, of exactly the capabilities before i *)
(* whose rendered form was written (those on the escape-sequence path and  *)
(* those whose native call invoked the writer closure), followed by the    *)
(* failing capability's own rendered form when its native call's writer    *)
(* closure had written it before the failure (a rejected flush, or an      *)
(* error of the native call itself).  A rejected write appends nothing.    *)
(***************************************************************************)
C8_PartialEffectsKept ==
    (pc = "done" /\ ~AllOk(last.cmds))
        => LET i == FirstFailure(last.cmds)
               c == last.cmds[i]
               own == IF UsesWriter(c) /\ c.out \in {"ferr", "nerr"}
                      THEN Bytes(c.val) ELSE <<>>
           IN  writer.buffer =
                 last.pre.buffer
                    \o RenderBytes(SelectSeq(Before(last.cmds, i), WroteRendered))
                    \o own

C8_Witness ==
    /\ pc = "done"
    /\ Len(last.cmds) = 2
    /\ last.cmds[1].sup /\ last.cmds[1].out = "ok"
    /\ last.cmds[2].out = "werr"
    /\ last.cmds[1].val # ""
    /\ last.pre.buffer # <<>>
    /\ writer.buffer = Append(last.pre.buffer, last.cmds[1].val)
    /\ last.res = Err(2, "write")

(***************************************************************************)
(* C9 (as stated): after any sequence of successful queue and execute      *)
(* calls on the escape-sequence path (and no flush by the caller), the     *)
(* sink content is the rendered forms of all capabilities in call order    *)
(* then argument order, and the sink is flushed exactly when the most      *)
(* recent call that wrote to it was an execute.                            *)
(***************************************************************************)
C9_Original_FlushedIffLastWriterExecute ==
    (hist.clean /\ ~hist.manual)
        => /\ writer.buffer = hist.sent
           /\ writer.flushed <=> hist.wrote = "execute"

(***************************************************************************)
(* C9 (amended): after any sequence of successful queue and execute calls  *)
(* on the escape-sequence path, the sink content is the rendered forms of  *)
(* all capabilities in call order then argument order, and the sink is     *)
(* flushed exactly when the most recent operation that wrote to it or      *)
(* flushed it was an execute (also one with no capabilities, which writes  *)
(* nothing and still flushes) or a flush by the caller; bytes written by   *)
(* queue stay unflushed until then.                                        *)
(***************************************************************************)
C9_FlushedIffLastTouchExecute ==
    hist.clean
        => /\ writer.buffer = hist.sent
           /\ writer.flushed <=> hist.touched \in {"execute", "flush"}

C9_Witness ==
    /\ hist.clean /\ ~hist.manual
    /\ Returned("queue") /\ last.cmds # <<>>
    /\ last.pre.flushed /\ last.pre.buffer # <<>>
    /\ hist.touched = "queue"
    /\ ~writer.flushed
    /\ Len(writer.buffer) = 3

(***************************************************************************)
(* C10: for every attribute set s and kind a: after s.set(a), s.has(a) is  *)
(* true; after s.set(a) followed by s.unset(a), s.has(a) is false; and for *)
(* every kind b other than a, s.has(b) is the same before and after        *)
(* set(a) or unset(a).                                                     *)
(***************************************************************************)
C10_SetUnsetHas ==
    /\ alast.op = "set" => has(attrs, alast.arg)
    /\ (alast.op = "unset" /\ alast.prevOp = "set" /\ alast.prevArg = alast.arg)
          => ~has(attrs, alast.arg)
    /\ alast.op \in {"set", "unset"}
          => \A b \in Kinds \ {alast.arg} : has(attrs, b) = has(alast.pre, b)

C10_Witness ==
    /\ alast.op = "unset" /\ alast.prevOp = "set" /\ alast.prevArg = alast.arg
    /\ has(alast.pre, alast.arg)
    /\ ~has(attrs, alast.arg)
    /\ \E b \in Kinds \ {alast.arg} : has(attrs, b)
    /\ \E b \in Kinds \ {alast.arg} : ~has(attrs, b)

(***************************************************************************)
(* C11: for every attribute set s, in any cursor state, and every kind a:  *)
(* set(a) twice gives a set equal to set(a) once, unset(a) twice gives a   *)
(* set equal to unset(a) once, and toggle(a) twice gives a set equal,      *)
(* under the type's equality, to s.                                        *)
(***************************************************************************)
C11_IdempotentSelfInverse ==
    /\ \A a \in Kinds :
          /\ Attributes_eq(set(set(attrs, a), a), set(attrs, a))
          /\ Attributes_eq(unset(unset(attrs, a), a), unset(attrs, a))
          /\ Attributes_eq(toggle(toggle(attrs, a), a), attrs)
    /\ (alast.op \in {"set", "unset"} /\ alast.prevOp = alast.op
          /\ alast.prevArg = alast.arg)
          => Attributes_eq(attrs, alast.pre)
    /\ (alast.op = "toggle" /\ alast.prevOp = "toggle" /\ alast.prevArg = alast.arg)
          => Attributes_eq(toggle(attrs, alast.arg), alast.pre)

C11_Witness ==
    /\ alast.op = "toggle" /\ alast.prevOp = "toggle" /\ alast.prevArg = alast.arg
    /\ attrs.idx > 0
    /\ has(attrs, alast.arg)
    /\ \E b \in Kinds \ {alast.arg} : has(attrs, b)

(***************************************************************************)
(* C12: two attribute sets with the same mask compare equal whatever their *)
(* cursors are: a copy of s on which next() has been called any number of  *)
(* times is still equal to s, and set algebra on the two gives equal       *)
(* results.  Here other is s and attrs is the copy.                        *)
(***************************************************************************)
C12_EqualWhateverCursor ==
    attrs.bytes = other.bytes
        => /\ Attributes_eq(attrs, other)
           /\ \A y \in {attrs, other} :
                 /\ Attributes_eq(bitand(attrs, y), bitand(other, y))
                 /\ Attributes_eq(bitor(attrs, y), bitor(other, y))
                 /\ Attributes_eq(bitxor(attrs, y), bitxor(other, y))
           /\ \A a \in Kinds :
                 /\ Attributes_eq(bitand_Attribute(attrs, a), bitand_Attribute(other, a))
                 /\ Attributes_eq(bitor_Attribute(attrs, a), bitor_Attribute(other, a))
                 /\ Attributes_eq(bitxor_Attribute(attrs, a), bitxor_Attribute(other, a))

\* the part of C12 that holds: set algebra reads the masks only
C12_SetAlgebraIgnoresCursor ==
    attrs.bytes = other.bytes
        => /\ \A y \in {attrs, other} :
                 /\ Attributes_eq(bitand(attrs, y), bitand(other, y))
                 /\ Attributes_eq(bitor(attrs, y), bitor(other, y))
                 /\ Attributes_eq(bitxor(attrs, y), bitxor(other, y))
           /\ \A a \in Kinds :
                 /\ Attributes_eq(bitand_Attribute(attrs, a), bitand_Attribute(other, a))
                 /\ Attributes_eq(bitor_Attribute(attrs, a), bitor_Attribute(other, a))
                 /\ Attributes_eq(bitxor_Attribute(attrs, a), bitxor_Attribute(other, a))

\* the members of a set of kinds, in ascending order
RECURSIVE Ascending(_)
Ascending(S) ==
    IF S = {} THEN <<>>
    ELSE LET m == CHOOSE x \in S : \A y \in S : x <= y
         IN  <<m>> \o Ascending(S \ {m})

(***************************************************************************)
(* C13: iterating a freshly built attribute set (cursor never moved)       *)
(* yields exactly the kinds a with has(a), each once, in ascending bit     *)
(* order, the kind yielded for a set bit being the one that owns it; a set *)
(* that holds one kind is empty after toggle of that kind.                 *)
(***************************************************************************)
C13_IterationYieldsTheSet ==
    /\ (alast.op = "collect" /\ alast.pre.idx = 0)
          => /\ alast.end = "none"
             /\ alast.out = Ascending({a \in Kinds : has(alast.pre, a)})
             /\ \A i \in 1..Len(alast.out) :
                   Attribute_bytes(alast.out[i]) \subseteq alast.pre.bytes
    /\ (alast.op = "toggle" /\ alast.pre.bytes = Attribute_bytes(alast.arg))
          => is_empty(attrs)

C13_Witness ==
    /\ alast.op = "collect" /\ alast.pre.idx = 0
    /\ alast.prevOp = "set"
    /\ Len(alast.out) = 2
    /\ alast.out[1] < alast.out[2]
    /\ attrs = alast.pre

\* every value returned by intersection, union and symmetric difference of the
\* value under test, with itself or with one kind, has its cursor at the start
CombinatorsResetCursor ==
    /\ bitand(attrs, attrs).idx = 0
    /\ bitor(attrs, attrs).idx = 0
    /\ bitxor(attrs, attrs).idx = 0
    /\ \A a \in Kinds :
          /\ bitand_Attribute(attrs, a).idx = 0
          /\ bitor_Attribute(attrs, a).idx = 0
          /\ bitxor_Attribute(attrs, a).idx = 0

(***************************************************************************)
(* C14: every iteration over an attribute set starts at the first bit:     *)
(* after any sequence of operations on a value (next() and in-place        *)
(* set/unset/toggle included) a new iteration over it or over a copy       *)
(* yields all the kinds it holds, from the lowest bit upward, and every    *)
(* value returned by intersection, union and symmetric difference has its  *)
(* cursor at the start.                                                    *)
(***************************************************************************)
C14_EveryIterationStartsAtFirstBit ==
    /\ alast.op = "collect"
          => alast.out = Ascending({a \in Kinds : has(alast.pre, a)})
    /\ CombinatorsResetCursor

\* the part of C14 that holds: the combinators build their result with idx 0
C14_CombinatorResultsStartAtFirstBit ==
    attrs.idx > 0 => CombinatorsResetCursor

(***************************************************************************)
(* C15: for all attribute sets x and y and every kind a: union(x, y) has a *)
(* iff x has a or y has a; intersection(x, y) has a iff both do;           *)
(* symmetric_difference(x, y) has a iff exactly one does; and none of the  *)
(* three combinators modifies x or y.  Here x is attrs, y is other.        *)
(***************************************************************************)
C15_SetAlgebraMembership ==
    /\ alast.op = "bitor"
          => \A a \in Kinds : has(alast.res, a) <=> (has(attrs, a) \/ has(other, a))
    /\ alast.op = "bitand"
          => \A a \in Kinds : has(alast.res, a) <=> (has(attrs, a) /\ has(other, a))
    /\ alast.op = "bitxor"
          => \A a \in Kinds : has(alast.res, a) <=> (has(attrs, a) # has(other, a))
    /\ alast.op = "bitor_Attribute"
          => \A a \in Kinds : has(alast.res, a) <=> (has(attrs, a) \/ a = alast.arg)
    /\ alast.op = "bitand_Attribute"
          => \A a \in Kinds : has(alast.res, a) <=> (has(attrs, a) /\ a = alast.arg)
    /\ alast.op = "bitxor_Attribute"
          => \A a \in Kinds : has(alast.res, a) <=> (has(attrs, a) # (a = alast.arg))
    /\ alast.op \in {"bitor", "bitand", "bitxor",
                     "bitor_Attribute", "bitand_Attribute", "bitxor_Attribute"}
          => /\ Attributes_eq(attrs, alast.pre)
             /\ Attributes_eq(other, alast.rhs)

C15_Witness ==
    /\ alast.op = "bitxor"
    /\ attrs.idx > 0 /\ other.idx > 0
    /\ \E a, b, c \in Kinds :
          /\ has(attrs, a) /\ has(other, a)
          /\ has(attrs, b) /\ ~has(other, b)
          /\ ~has(attrs, c) /\ has(other, c)
          /\ ~has(alast.res, a) /\ has(alast.res, b) /\ has(alast.res, c)

Range(q) == {q[i] : i \in 1..Len(q)}

Reverse(q) == [i \in 1..Len(q) |-> q[Len(q) + 1 - i]]

\* q with its first element moved to the end
Rotate(q) == IF q = <<>> THEN q ELSE Append(Tail(q), Head(q))

(***************************************************************************)
(* C16: converting an ordered sequence of kinds into a set yields the set  *)
(* of exactly the kinds occurring in it: the same for a permutation of the *)
(* sequence and for the sequence with duplicates removed, the empty set    *)
(* for the empty sequence, and for one kind the same as for the sequence   *)
(* of that kind alone.                                                     *)
(***************************************************************************)
C16_FromSliceIsTheSetOfElements ==
    /\ alast.op = "from_slice"
          => /\ \A a \in Kinds : has(attrs, a) <=> a \in Range(alast.arr)
             /\ Attributes_eq(attrs, From_slice(Reverse(alast.arr)))
             /\ Attributes_eq(attrs, From_slice(Rotate(alast.arr)))
             /\ Attributes_eq(attrs, From_slice(Ascending(Range(alast.arr))))
             /\ alast.arr = <<>>
                   => is_empty(attrs) /\ Attributes_eq(attrs, Attributes_default)
    /\ alast.op = "from"
          => /\ Attributes_eq(attrs, From_slice(<<alast.arg>>))
             /\ \A a \in Kinds : has(attrs, a) <=> a = alast.arg

C16_Witness ==
    /\ alast.op = "from_slice"
    /\ Len(alast.arr) = 3
    /\ alast.arr[1] = alast.arr[3] /\ alast.arr[1] > alast.arr[2]
    /\ has(attrs, alast.arr[1]) /\ has(attrs, alast.arr[2])
    /\ Attributes_eq(attrs, From_slice(<<alast.arr[2], alast.arr[1]>>))

(***************************************************************************)
(* C17: x.extend(y) is an in-place union that never removes bits: for      *)
(* every x, y and kind a, after x.extend(y) x has a iff it had a before or *)
(* y has a; every kind in x before the call is still in x after it, and y  *)
(* is unchanged.  Here x is attrs, y is other.                             *)
(***************************************************************************)
C17_ExtendIsInPlaceUnion ==
    alast.op = "extend"
        => /\ \A a \in Kinds :
                 /\ has(attrs, a) <=> (has(alast.pre, a) \/ has(other, a))
                 /\ has(alast.pre, a) => has(attrs, a)
           /\ alast.pre.bytes \subseteq attrs.bytes
           /\ Attributes_eq(other, alast.rhs)

C17_Witness ==
    /\ alast.op = "extend"
    /\ \E a, b \in Kinds :
          /\ has(alast.pre, a) /\ ~has(other, a)
          /\ ~has(alast.pre, b) /\ has(other, b)
          /\ has(attrs, a) /\ has(attrs, b)
    /\ other.idx > 0

\* next() on the iterator as it is now ends the iteration, in either build
Exhausted ==
    \A wrap \in BOOLEAN :
        LET r == next(attrs, wrap, EnumLen)
        IN  r.end = "none" /\ r.s = attrs

\* the iteration of the iterator as it is now comes to its end, having made at
\* most one call per bit position and one more, and one call per kind it
\* still has to yield and one more
EndsWithinWidth ==
    \A wrap \in BOOLEAN :
        LET r == collect(attrs, wrap, EnumLen)
        IN  /\ r.end = "none"
            /\ Len(r.out) + 1 <= Bits + 1
            /\ Len(r.out) <= Cardinality(attrs.bytes)

(***************************************************************************)
(* C18: iteration is finite and stays exhausted: for every mask, calling   *)
(* next() repeatedly returns end-of-iteration after at most as many calls  *)
(* as there are bit positions plus one; once next() has returned           *)
(* end-of-iteration every later next() on that value does too while its    *)
(* mask is not changed; mutating a different copy of the set never changes *)
(* what the iterator yields; an all-zero mask returns end-of-iteration on  *)
(* the first call.                                                         *)
(***************************************************************************)
C18_FiniteAndStaysExhausted ==
    /\ alast.op = "next" => alast.end \in {"some", "none"}
    /\ EndsWithinWidth
    /\ (alast.op = "next" /\ alast.end = "none") => Exhausted
    /\ alast.op = "mutate_copy" => Attributes_eq(attrs, alast.pre)
    /\ (alast.op = "next" /\ alast.pre.bytes = {}) => alast.end = "none"
    /\ attrs.bytes = {} => Exhausted

C18_Witness ==
    /\ alast.op = "next" /\ alast.end = "none"
    /\ Attributes_eq(attrs, alast.pre)
    /\ Cardinality(attrs.bytes) > 1
    /\ other.bytes # attrs.bytes
    /\ \E a \in Kinds : has(other, a) /\ ~has(attrs, a) /\ a >= attrs.idx

(***************************************************************************)
(* C19: mask and cursor are modified by disjoint operations: next() never  *)
(* changes the mask (has(a) and is_empty() answer the same before and      *)
(* after it), set, unset, toggle and extend never change the cursor, and   *)
(* has and is_empty change neither.                                        *)
(***************************************************************************)
C19_MaskAndCursorFrames ==
    /\ alast.op = "next"
          => /\ attrs.bytes = alast.pre.bytes
             /\ \A a \in Kinds : has(attrs, a) <=> has(alast.pre, a)
             /\ is_empty(attrs) <=> is_empty(alast.pre)
    /\ alast.op \in Mutators => attrs.idx = alast.pre.idx
    /\ \A y \in Built : extend(attrs, y).idx = attrs.idx
    /\ alast.op \in {"has", "is_empty"} => Attributes_eq(attrs, alast.pre)

C19_Witness ==
    /\ alast.op = "next" /\ alast.end = "some"
    /\ alast.prevOp = "toggle"
    /\ alast.pre.idx > 0
    /\ attrs.idx > alast.pre.idx
    /\ has(attrs, alast.item)

\* the shift amounts 1 << (idx + 1) that the calls of next() evaluate, from s
\* until the iteration ends, for an enumeration of n kinds
RECURSIVE ShiftsOfIteration(_, _, _)
ShiftsOfIteration(s, wrap, n) ==
    LET r == next(s, wrap, n)
    IN  r.shifts \cup (IF r.end = "some" THEN ShiftsOfIteration(r.s, wrap, n) ELSE {})

\* bit positions of the word that masks are probed over: the lowest ones and
\* the two highest
ProbeBits == (0..(NumKinds - 2)) \cup {Bits - 2, Bits - 1}

(***************************************************************************)
(* C20: for every 32-bit mask, the ones whose highest set bit is bit 31    *)
(* included, and every cursor reachable by calling next() from cursor 0,   *)
(* next() never evaluates the shift 1 << (idx + 1) with idx + 1 >= 32.     *)
(* The first part is about the calls made on the iterator; the second is   *)
(* about every mask over the probed bits, iterated from cursor 0, for the  *)
(* enumeration of the model and every larger one that leaves bit 31        *)
(* unowned (it does not depend on the state and is evaluated in the        *)
(* initial ones).                                                          *)
(***************************************************************************)
C20_NoShiftOverflow ==
    /\ alast.op = "next" => \A k \in alast.shifts : k < Bits
    /\ \A k \in ShiftsOfIteration(attrs, FALSE, EnumLen) : k < Bits
    /\ alast.op = "none"
          => \A m \in SUBSET ProbeBits, wrap \in BOOLEAN, n \in EnumLen..(Bits - 2) :
                \A k \in ShiftsOfIteration([bytes |-> m, idx |-> 0], wrap, n) : k < Bits

C20_Witness ==
    /\ alast.op = "next" /\ alast.end = "some"
    /\ alast.pre.idx > 0
    /\ Cardinality(alast.shifts) > 1
    /\ Highest(attrs.bytes) \in alast.shifts
    /\ Highest(attrs.bytes) = NumKinds

====
